---------------------------- MODULE Spec2Model ----------------------------
(***************************************************************************)
(* A model of faceit_verification.py: the tournament sync loop             *)
(* (check_championships) and its scheduling, the store of announced        *)
(* tournaments and its file, the OAuth linking flow (/login,               *)
(* /oauth-callback), the /stats command and the rate limited FACEIT API    *)
(* client.                                                                 *)
(*                                                                         *)
(* The parts share no state in the program, so each has its own            *)
(* specification: Spec (sync loop, one process run), SpecRestart (sync     *)
(* loop with process restarts), SpecSched (the loop as on_ready starts     *)
(* it), SpecOAuth, SpecStats and SpecStatsLong (/stats handlers),          *)
(* SpecRecent (the glyphs of the recent matches) and SpecApi (one caller   *)
(* of the API client). SpecFair is Spec under the scheduling of the loop,  *)
(* and SpecCycle follows the exceptions of one cycle over a listing of     *)
(* several tournaments.                                                    *)
(***************************************************************************)
EXTENDS Integers, Sequences, FiniteSets, TLC

\* ------------------------------------------------------------------ bounds
NumTournaments == 1
MaxMsgs == 2
NumUsers == 1
NumAuthors == 2
NumReqs == 2
MaxTokens == 2
NumInvs == 2
MaxTime == 16
MaxLate == 19
MaxMatches == 2
MaxReady == 3
MaxRuns == 4
MaxItems == 2

\* Times are counted in half seconds.
RATE_LIMIT_COOLDOWN == 10
rate_limit_delay == 3

Ids == 1..NumTournaments
MsgIds == 1..MaxMsgs
Users == 1..NumUsers
Authors == 1..NumAuthors
Reqs == 1..NumReqs
Invs == 1..NumInvs

\* The message id of an entry upgraded from the legacy set format (None).
NoMsg == 0

Statuses == {"not_started", "upcoming", "in_progress", "finished", "cancelled"}
Active == {"upcoming", "in_progress"}
Terminal == {"finished", "cancelled"}

VARIABLES
    \* ---- tournament sync loop
    status,                 \* remote: the organizer's tournaments and their status
    channel,                \* remote: the messages of the announcement channel
    announced_tournaments,  \* {championship_id: message_id}
    file,                   \* announced_tournaments.pkl
    pc,                     \* check_championships: "idle" | "loop"
    items,                  \* championships_data['items'] of the running cycle
    todo,                   \* the items the for loop has not reached yet
    ev,                     \* what the last step of the loop did (observation)
    \* ---- OAuth linking flow
    verification_states,    \* {discord_id: {"state": token}}, in insertion order
    tokens,                 \* the tokens /login issued: tokens[t] is the user of t
    reqs,                   \* the /oauth-callback requests and their locals
    updates,                \* the update_discord_user calls handed to bot.loop
    \* ---- /stats and the FACEIT API client
    now,                    \* the clock, in half seconds
    user_cooldowns,         \* {discord_id: start time of the last /stats that succeeded}
    last_api_call,          \* FaceitAPI.last_api_call
    min_gap,                \* the shortest time between two outbound requests so far
    last_start,             \* {discord_id: start time of the user's latest /stats}
    last_ok,                \* {discord_id: time the user's latest stats embed was sent}
    invs,                   \* the /stats invocations and their locals
    api,                    \* a caller of FaceitAPI._rate_limited_request on its own
    \* ---- the scheduling of check_championships
    sched,                  \* the tasks of the loop, the on_ready events, the runs
    \* ---- the recent matches of /stats
    recent,                 \* a match history and the glyphs /stats makes of it
    \* ---- the exceptions of one cycle of check_championships
    cycle                   \* a listing, and how the handling of each item ended

syncVars == <<status, channel, announced_tournaments, file, pc, items, todo, ev>>

oauthVars == <<verification_states, tokens, reqs, updates>>

statsVars == <<now, user_cooldowns, last_api_call, min_gap, last_start, last_ok, invs>>

\* What the sync loop leaves alone.
notSync == <<oauthVars, statsVars, api, sched, recent, cycle>>

\* What the OAuth flow leaves alone.
notOAuth == <<syncVars, statsVars, api, sched, recent, cycle>>

\* What /stats leaves alone.
notStats == <<syncVars, oauthVars, api, sched, recent, cycle>>

\* What a call of the API client leaves alone.
notApi == <<syncVars, oauthVars, user_cooldowns, last_start, last_ok, invs, sched, recent, cycle>>

\* What the scheduling of the loop leaves alone.
notSched == <<syncVars, oauthVars, statsVars, api, recent, cycle>>

\* What the rendering of the recent matches leaves alone.
notRecent == <<syncVars, oauthVars, statsVars, api, sched, cycle>>

\* What the walk over a listing leaves alone.
notCycle == <<syncVars, oauthVars, statsVars, api, sched, recent>>

\* ------------------------------------------------------------ store file

EmptyStore == [x \in {} |-> NoMsg]

NoFile == [kind |-> "missing", data |-> EmptyStore]

\* pickle.load of the file: a dict is taken as it is, a legacy set becomes
\* {k: None}, a missing or unreadable file gives {}.
load_announced_tournaments(f) ==
    CASE f.kind = "dict" -> f.data
      [] f.kind = "set" -> [k \in DOMAIN f.data |-> NoMsg]
      [] OTHER -> EmptyStore

\* open(..., 'wb') then pickle.dump: the outcome sv is "ok" (the file holds the
\* store), "failed" (open raised, the file is as it was) or "torn" (the file
\* was truncated and the dump did not complete).
save_announced_tournaments(store, f, sv) ==
    CASE sv = "ok" -> [kind |-> "dict", data |-> store]
      [] sv = "torn" -> [kind |-> "corrupt", data |-> EmptyStore]
      [] OTHER -> f

SaveOutcomes == {"ok", "failed", "torn"}

\* Mutant of Pop: the entry is left in the dict.
PopKeeps(store, k) == store

\* dict.pop(k)
Pop(store, k) == [x \in DOMAIN store \ {k} |-> store[x]]

\* dict[k] = v
Put(store, k, v) == [x \in DOMAIN store \cup {k} |-> IF x = k THEN v ELSE store[x]]

\* ---------------------------------------------------------------- channel

NoMessage == [tid |-> 0, kind |-> "none"]

Exists(m) == m \in MsgIds /\ channel[m].kind \in {"live", "final"}

FreshMsgs == {m \in MsgIds : channel[m].kind = "none"}

\* The id the chat platform gives the next message.
NextMsg == CHOOSE m \in FreshMsgs : \A k \in FreshMsgs : m <= k

\* --------------------------------------------------------- observation

NoEv == [op |-> "none", id |-> 0, status |-> "none", stored |-> FALSE,
         mid |-> NoMsg, existed |-> FALSE, chan |-> FALSE, fetch |-> "none",
         standings |-> "none", fields |-> "none", render |-> "none", edit |-> "none",
         send |-> "none", newMsg |-> NoMsg, save |-> "none", aborted |-> FALSE,
         listing |-> "none"]

\* The observation of the step that handles item cid of the listing.
ItemEv(cid) ==
    [NoEv EXCEPT !.op = "item", !.id = cid, !.status = items[cid],
                 !.stored = cid \in DOMAIN announced_tournaments,
                 !.mid = IF cid \in DOMAIN announced_tournaments
                         THEN announced_tournaments[cid] ELSE NoMsg,
                 !.existed = /\ cid \in DOMAIN announced_tournaments
                             /\ Exists(announced_tournaments[cid])]


\* ------------------------------------------------ remote side (environment)

\* The tournament lifecycle of the provider: a status only moves forward.
NextStatuses(s) ==
    CASE s = "not_started" -> {"upcoming", "cancelled"}
      [] s = "upcoming" -> {"in_progress", "cancelled"}
      [] s = "in_progress" -> {"finished", "cancelled"}
      [] OTHER -> {}

\* The provider changes the status of a tournament. Tournament cid is the
\* cid-th of the organizer to leave its initial status.
RemoteChange(cid) ==
    /\ status[cid] = "not_started" =>
          \A k \in 1..(cid - 1) : status[k] # "not_started"
    /\ \E s \in NextStatuses(status[cid]) : status' = [status EXCEPT ![cid] = s]
    /\ ev' = NoEv
    /\ UNCHANGED <<channel, announced_tournaments, file, pc, items, todo>>
    /\ UNCHANGED notSync

\* Somebody deletes a message of the announcement channel.
DeleteMessage(m) ==
    /\ Exists(m)
    /\ channel' = [channel EXCEPT ![m].kind = "deleted"]
    /\ ev' = NoEv
    /\ UNCHANGED <<status, announced_tournaments, file, pc, items, todo>>
    /\ UNCHANGED notSync

\* ------------------------------------------------------ check_championships

\* Mutant of IsTracked: the membership test reads the persisted copy, which a
\* failed save leaves behind the dict.
IsTrackedOnDisk(cid) == cid \in DOMAIN load_announced_tournaments(file)

\* line 306: championship_id in announced_tournaments
IsTracked(cid) == cid \in DOMAIN announced_tournaments

\* Mutant of IsFinished: a cancelled tournament is not taken as over.
IsFinishedOnly(st) == st = "finished"

\* line 314: status == "finished" or status == "cancelled"
IsFinished(st) == st = "finished" \/ st = "cancelled"

\* line 331: status == "upcoming" or status == "in_progress"
IsAnnounceable(st) == st = "upcoming" \/ st = "in_progress"

\* announcement_channel.fetch_message(message_id): the message if it exists,
\* NotFound if it does not, Forbidden or another error in both cases.
FetchOutcomes(mid) ==
    (IF Exists(mid) THEN {"ok"} ELSE {"notfound"}) \cup {"forbidden", "error"}

\* message.edit(embed=...): NotFound when the message was deleted after the
\* fetch.
EditOutcomes == {"ok", "notfound", "forbidden", "error"}

\* announcement_channel.send(embed=...)
SendOutcomes == {"ok", "forbidden", "error"}

\* faceit_api.get_championship_standings: None ("absent"), an empty JSON value,
\* a list of team objects ("teams"), or a JSON object ("object").
StandingsOutcomes == {"absent", "empty", "teams", "object"}

\* create_finished_embed(championship, standings): the else branch renders the
\* placeholder for a falsy standings value; a truthy one is enumerated and
\* team.get(...) is called on every element, which raises on the keys of a JSON
\* object. wf: the championship's own fields have the types the embed reads.
create_finished_embed(wf, standings) ==
    IF ~wf THEN "raised"
    ELSE CASE standings \in {"absent", "empty"} -> "placeholder"
           [] standings = "teams" -> "leaderboard"
           [] OTHER -> "raised"

\* create_championship_embed(championship): raises when a field it
\* dereferences (prize_pool, organizer, region, status, name) is null.
create_championship_embed(wf) == IF wf THEN "ok" ELSE "raised"

\* The end of the handling of item cid: the new channel, store and file, and
\* the next item, or the end of the cycle when the exception left the loop
\* (line 345).
Step(cid, e, ch, store, f) ==
    /\ ev' = e
    /\ channel' = ch
    /\ announced_tournaments' = store
    /\ file' = f
    /\ IF e.aborted
       THEN pc' = "idle" /\ todo' = {} /\ items' = [x \in {} |-> "none"]
       ELSE pc' = pc /\ todo' = todo \ {cid} /\ items' = items

Skip(cid, e) == Step(cid, e, channel, announced_tournaments, file)

\* Mutant of Orphan: NotFound is handled like Forbidden, the entry stays.
OrphanKept(cid, e, ch) == Skip(cid, e)

\* lines 322-325: except discord.NotFound. A failing save raises inside the
\* handler, past the sibling except clauses, to line 345.
Orphan(cid, e, ch) ==
    \E sv \in SaveOutcomes :
        LET store == Pop(announced_tournaments, cid) IN
        Step(cid, [e EXCEPT !.save = sv, !.aborted = (sv # "ok")], ch, store,
             save_announced_tournaments(store, file, sv))

\* Mutant of Denied: a refused call is handled like a missing message.
DeniedPops(cid, e) == Orphan(cid, e, channel)

\* lines 326-329: except discord.Forbidden and except Exception only log.
Denied(cid, e) == Skip(cid, e)

\* lines 314-320: the tournament is over and its message was fetched.
Finalize(cid, e) ==
    \E sr \in StandingsOutcomes, wf \in BOOLEAN :
        LET mid == announced_tournaments[cid]
            rendered == create_finished_embed(wf, sr)
            e1 == [e EXCEPT !.standings = sr, !.render = rendered,
                            !.fields = IF wf THEN "ok" ELSE "null"]
        IN  IF rendered = "raised"
            THEN Skip(cid, e1)
            ELSE \E er \in EditOutcomes :
                   LET e2 == [e1 EXCEPT !.edit = er] IN
                   CASE er = "ok" ->
                          \E sv \in SaveOutcomes :
                            LET store == Pop(announced_tournaments, cid) IN
                            Step(cid, [e2 EXCEPT !.save = sv],
                                 [channel EXCEPT ![mid].kind = "final"], store,
                                 save_announced_tournaments(store, file, sv))
                     [] er = "notfound" ->
                          Orphan(cid, e2, [channel EXCEPT ![mid].kind = "deleted"])
                     [] OTHER -> Denied(cid, e2)

\* lines 306-329: the tournament is in the store.
UpdateAnnounced(cid) ==
    \E chan \in BOOLEAN :
        LET mid == announced_tournaments[cid]
            e0 == [ItemEv(cid) EXCEPT !.chan = chan]
        IN  IF ~chan
            THEN Skip(cid, e0)
            ELSE \E fr \in FetchOutcomes(mid) :
                   LET e1 == [e0 EXCEPT !.fetch = fr] IN
                   CASE fr = "ok" ->
                          IF IsFinished(items[cid]) THEN Finalize(cid, e1)
                          ELSE Skip(cid, e1)
                     [] fr = "notfound" -> Orphan(cid, e1, channel)
                     [] OTHER -> Denied(cid, e1)

\* Mutant of Unsent: the tournament is stored although nothing was published.
UnsentStored(cid, e) ==
    Step(cid, e, channel, Put(announced_tournaments, cid, NoMsg), file)

\* lines 340-343: except discord.Forbidden and except Exception around the
\* send only log.
Unsent(cid, e) == Skip(cid, e)

\* lines 330-343: the tournament is not in the store.
AnnounceNew(cid) ==
    IF ~IsAnnounceable(items[cid])
    THEN Skip(cid, ItemEv(cid))
    ELSE
      /\ FreshMsgs # {}
      /\ \E chan \in BOOLEAN, wf \in BOOLEAN :
           LET e0 == [ItemEv(cid) EXCEPT !.chan = chan] IN
           IF ~chan
           THEN Skip(cid, e0)
           ELSE IF create_championship_embed(wf) = "raised"
           THEN Skip(cid, [e0 EXCEPT !.render = "raised", !.fields = "null",
                                     !.aborted = TRUE])
           ELSE \E sr \in SendOutcomes :
                  LET e1 == [e0 EXCEPT !.render = "ok", !.fields = "ok", !.send = sr] IN
                  IF sr = "ok"
                  THEN \E sv \in SaveOutcomes :
                         LET m == NextMsg
                             store == Put(announced_tournaments, cid, m)
                         IN  Step(cid, [e1 EXCEPT !.newMsg = m, !.save = sv],
                                  [channel EXCEPT ![m] = [tid |-> cid, kind |-> "live"]],
                                  store,
                                  save_announced_tournaments(store, file, sv))
                  ELSE Unsent(cid, e1)

\* Mutant of Kept: the entries of tournaments the listing lacks are dropped.
Pruned(store, L) == [x \in DOMAIN store \cap L |-> store[x]]

\* lines 302-307: the loop runs over the items of the listing only; nothing
\* is done for the entries of tournaments the listing lacks.
Kept(store, L) == store

\* faceit_api.get_championships (line 297): None ("absent"), a JSON value
\* without the key 'items' ("no_items"), or a listing ("items").
ListingOutcomes == {"absent", "no_items", "items"}

\* Mutant of HasItems: only an absent result ends the cycle.
HasItemsUnlessAbsent(o) == o # "absent"

\* line 298: not (championships_data is None or 'items' not in championships_data)
HasItems(o) == o # "absent" /\ o # "no_items"

\* lines 296-300: the cycle starts with the listing; an absent result or one
\* without 'items' ends it.
StartCycle ==
    /\ pc = "idle"
    /\ \E o \in ListingOutcomes :
         IF ~HasItems(o)
         THEN /\ ev' = [NoEv EXCEPT !.op = "no_listing", !.listing = o]
              /\ UNCHANGED <<pc, items, todo, announced_tournaments>>
         ELSE \E L \in SUBSET Ids :
              /\ items' = [cid \in L |-> status[cid]]
              /\ todo' = L
              /\ pc' = "loop"
              /\ ev' = [NoEv EXCEPT !.op = "listing", !.listing = o]
              /\ announced_tournaments' = Kept(announced_tournaments, L)
    /\ UNCHANGED <<status, channel, file>>
    /\ UNCHANGED notSync

\* lines 302-343: one iteration of the for loop.
ProcessItem(cid) ==
    /\ pc = "loop"
    /\ cid \in todo
    /\ IF IsTracked(cid) THEN UpdateAnnounced(cid) ELSE AnnounceNew(cid)
    /\ UNCHANGED status
    /\ UNCHANGED notSync

\* The for loop is exhausted: the cycle ends and the task sleeps to the next.
FinishCycle ==
    /\ pc = "loop"
    /\ todo = {}
    /\ pc' = "idle"
    /\ items' = [x \in {} |-> "none"]
    /\ ev' = [NoEv EXCEPT !.op = "end"]
    /\ UNCHANGED <<status, channel, announced_tournaments, file, todo>>
    /\ UNCHANGED notSync

\* The process is stopped between two steps of the loop and started again:
\* line 99 loads the store from the file.
Restart ==
    /\ announced_tournaments' = load_announced_tournaments(file)
    /\ pc' = "idle"
    /\ items' = [x \in {} |-> "none"]
    /\ todo' = {}
    /\ ev' = [NoEv EXCEPT !.op = "restart"]
    /\ UNCHANGED <<status, channel, file>>
    /\ UNCHANGED notSync

SyncInit ==
    /\ status = [cid \in Ids |-> "not_started"]
    /\ channel = [m \in MsgIds |-> NoMessage]
    /\ file = NoFile
    /\ announced_tournaments = load_announced_tournaments(file)
    /\ pc = "idle"
    /\ items = [x \in {} |-> "none"]
    /\ todo = {}
    /\ ev = NoEv

SyncNext ==
    \/ \E cid \in Ids : RemoteChange(cid)
    \/ \E m \in MsgIds : DeleteMessage(m)
    \/ StartCycle
    \/ \E cid \in Ids : ProcessItem(cid)
    \/ FinishCycle

\* --------------------------------------------------------- OAuth linking

\* A slot of the dict whose entry was popped.
Hole == 0

\* len(verification_states)
Used(d) == Cardinality({i \in 1..Len(d) : d[i].key # Hole})

Keys(d) == {d[i].key : i \in 1..Len(d)} \ {Hole}

SlotOf(d, u) == CHOOSE i \in 1..Len(d) : d[i].key = u

\* verification_states[u] = {"state": t, ...}: the value of an existing key is
\* replaced in place, a new key is added at the end.
SetItem(d, u, t) ==
    IF u \in Keys(d)
    THEN [d EXCEPT ![SlotOf(d, u)].state = t]
    ELSE Append(d, [key |-> u, state |-> t])

\* verification_states.pop(u, None)
PopItem(d, u) ==
    IF u \in Keys(d)
    THEN [d EXCEPT ![SlotOf(d, u)] = [key |-> Hole, state |-> 0]]
    ELSE d

NoReq == [pc |-> "idle", code |-> FALSE, state |-> 0, known |-> FALSE,
          discord_id |-> 0, pos |-> 0, used |-> 0, left |-> 0, passed |-> FALSE,
          xchg |-> "none", prof |-> "none", resp |-> 0]

\* /login (lines 506-512): a new random token replaces the user's entry.
\* Author u is the u-th user to log in.
login(u) ==
    /\ Len(tokens) < MaxTokens
    /\ \A w \in 1..(u - 1) : \E t \in 1..Len(tokens) : tokens[t] = w
    /\ tokens' = Append(tokens, u)
    /\ verification_states' = SetItem(verification_states, u, Len(tokens) + 1)
    /\ UNCHANGED <<reqs, updates>>
    /\ UNCHANGED notOAuth

\* lines 426-431: the request's arguments are read and the iteration over
\* verification_states.items() starts. The state presented is a token that
\* was issued, or a value that never was (0). Request r is the r-th request
\* the server receives.
CbArrive(r) ==
    /\ reqs[r].pc = "idle"
    /\ \A k \in 1..(r - 1) : reqs[k].pc # "idle"
    /\ \E code \in BOOLEAN, st \in 0..Len(tokens) :
         reqs' = [reqs EXCEPT ![r] =
                    [NoReq EXCEPT !.pc = "scan", !.code = code, !.state = st,
                                  !.known = \E i \in 1..Len(verification_states) :
                                      /\ verification_states[i].key # Hole
                                      /\ verification_states[i].state = st,
                                  !.pos = 1,
                                  !.used = Used(verification_states),
                                  !.left = Used(verification_states)]]
    /\ UNCHANGED <<verification_states, tokens, updates>>
    /\ UNCHANGED notOAuth

\* The next slot with an entry at or after position p (0: none).
NextSlot(d, p) ==
    IF \E i \in p..Len(d) : d[i].key # Hole
    THEN CHOOSE i \in p..Len(d) :
            d[i].key # Hole /\ \A k \in p..(i - 1) : d[k].key = Hole
    ELSE 0

\* Mutant of StateMatches: the first entry of the dict is taken.
StateMatchesAny(entry, st) == TRUE

\* line 432: value["state"] == state
StateMatches(entry, st) == entry.state = st

\* The request is answered: its iterator is gone.
Respond(q, code) ==
    [q EXCEPT !.pc = "done", !.resp = code, !.pos = 0, !.used = 0, !.left = 0]

\* lines 431-434: one step of the for loop. The dict iterator raises
\* RuntimeError when the dict changed size since the loop started ("dictionary
\* changed size during iteration") or holds an entry the iterator did not
\* expect ("dictionary keys changed during iteration"); the view does not
\* catch it and the request is answered 500.
CbScan(r) ==
    /\ reqs[r].pc = "scan"
    /\ LET q == reqs[r]
           d == verification_states
           i == NextSlot(d, q.pos)
       IN  reqs' = [reqs EXCEPT ![r] =
               IF q.used # Used(d) THEN Respond(q, 500)
               ELSE IF i = 0
                    THEN [q EXCEPT !.pc = "check", !.pos = 0, !.used = 0, !.left = 0]
               ELSE IF q.left = 0 THEN Respond(q, 500)
               ELSE IF StateMatches(d[i], q.state)
                    THEN [q EXCEPT !.pc = "check", !.discord_id = d[i].key,
                                   !.pos = 0, !.used = 0, !.left = 0]
                    ELSE [q EXCEPT !.pos = i + 1, !.left = q.left - 1]]
    /\ UNCHANGED <<verification_states, tokens, updates>>
    /\ UNCHANGED notOAuth

\* line 436: not discord_id or not code
Rejected(q) == q.discord_id = 0 \/ ~q.code

\* lines 436-440: the check of the scan's result and the removal of the entry.
CbCheck(r) ==
    /\ reqs[r].pc = "check"
    /\ LET q == reqs[r] IN
       IF Rejected(q)
       THEN /\ reqs' = [reqs EXCEPT ![r] = Respond(q, 400)]
            /\ UNCHANGED verification_states
       ELSE /\ reqs' = [reqs EXCEPT ![r] = [q EXCEPT !.pc = "exchange", !.passed = TRUE]]
            /\ verification_states' = PopItem(verification_states, q.discord_id)
    /\ UNCHANGED <<tokens, updates>>
    /\ UNCHANGED notOAuth

\* lines 452-456: the code is exchanged for an access token.
CbExchange(r) ==
    /\ reqs[r].pc = "exchange"
    /\ \E ok \in BOOLEAN :
         reqs' = [reqs EXCEPT ![r] =
                    IF ok THEN [@ EXCEPT !.pc = "profile", !.xchg = "ok"]
                    ELSE [Respond(@, 500) EXCEPT !.xchg = "failed"]]
    /\ UNCHANGED <<verification_states, tokens, updates>>
    /\ UNCHANGED notOAuth

\* The outcomes of lines 458-473: the profile is fetched and read ("ok"), the
\* fetch fails ("failed"), or reading the payload or handing the update over
\* raises ("raised").
ProfileOutcomes == {"ok", "failed", "raised"}

\* Mutant of Answer: the success text is returned from every path.
AnswerAlwaysOk(outcome) == 200

\* lines 475-482: the answer of the request.
Answer(outcome) == IF outcome = "ok" THEN 200 ELSE 500

\* lines 458-482: the profile is fetched and update_discord_user is handed to
\* the event loop.
CbProfile(r) ==
    /\ reqs[r].pc = "profile"
    /\ \E o \in ProfileOutcomes :
         /\ reqs' = [reqs EXCEPT ![r] =
                       [Respond(@, Answer(o)) EXCEPT !.prof = o]]
         /\ updates' = IF o = "ok"
                       THEN updates \cup {[req |-> r, user |-> reqs[r].discord_id]}
                       ELSE updates
    /\ UNCHANGED <<verification_states, tokens>>
    /\ UNCHANGED notOAuth

OAuthInit ==
    /\ verification_states = <<>>
    /\ tokens = <<>>
    /\ reqs = [r \in Reqs |-> NoReq]
    /\ updates = {}

OAuthNext ==
    \/ \E u \in Authors : login(u)
    \/ \E r \in Reqs : CbArrive(r)
    \/ \E r \in Reqs : CbScan(r)
    \/ \E r \in Reqs : CbCheck(r)
    \/ \E r \in Reqs : CbExchange(r)
    \/ \E r \in Reqs : CbProfile(r)

\* -------------------------------------------- recent matches of /stats

\* An item of the match history, as far as lines 388-395 read it. teams: the
\* item has no teams.faction1 ("missing"), a faction1 without players or with
\* an empty list of players ("no_players"), or a faction1 with players ("ok").
\* winner: results.winner_id is missing (0) or is the faction_id of faction1
\* (1) or of faction2 (2). mine: the faction the requesting player was in.
Matches == [teams : {"missing", "no_players", "ok"}, winner : 0..2, mine : 1..2]

Histories == UNION {[1..n -> Matches] : n \in 0..MaxMatches}

\* lines 388-395: the glyph of one match. The [0] of line 388 raises
\* IndexError on the empty list that stands for missing teams, a missing
\* faction1 or missing players; player_team_id is the id of the first player
\* of faction1 and the winner is compared with the faction_id of faction1.
match_icon(mt) ==
    IF mt.teams # "ok" THEN "raised"
    ELSE IF mt.winner # 0
         THEN (IF mt.winner = 1 THEN "green" ELSE "red")
         ELSE "none"

RECURSIVE recent_result_icons(_)
\* lines 385-395: the loop over the matches: recent_result_icons, and whether
\* the loop raised.
recent_result_icons(h) ==
    IF h = <<>> THEN [raised |-> FALSE, icons |-> <<>>]
    ELSE LET icon == match_icon(Head(h))
             rest == recent_result_icons(Tail(h))
         IN  IF icon = "raised" \/ rest.raised THEN [raised |-> TRUE, icons |-> <<>>]
             ELSE IF icon = "none" THEN rest
             ELSE [rest EXCEPT !.icons = <<icon>> \o @]

\* Whether the loop over the matches can raise, and whether it can go through.
LoopRaises == {recent_result_icons(h).raised : h \in Histories}

\* lines 385-419: /stats got the history h; the embed is sent when the loop
\* over the matches did not raise.
RenderRecent ==
    /\ \E h \in Histories :
         LET r == recent_result_icons(h) IN
         recent' = [history |-> h, raised |-> r.raised, icons |-> r.icons,
                    sent |-> ~r.raised]
    /\ UNCHANGED notRecent

RecentInit ==
    recent = [history |-> <<>>, raised |-> FALSE, icons |-> <<>>, sent |-> FALSE]

RecentNext == RenderRecent

\* ------------------------------------------------- /stats and FaceitAPI

\* The clock when the process starts: time.time() and loop.time() are far from
\* 0, the initial value of last_api_call and of a user's cooldown entry.
StartTime == RATE_LIMIT_COOLDOWN

NoInv == [pc |-> "idle", user |-> 0, current_time |-> 0, stage |-> "none",
          wake |-> 0, stats_ok |-> FALSE, calls |-> 0, reply |-> "none",
          remaining |-> 0]

\* Time passes.
Tick ==
    /\ now < MaxTime
    /\ now' = now + 1
    /\ UNCHANGED <<user_cooldowns, last_api_call, min_gap, last_start, last_ok, invs>>
    /\ UNCHANGED notStats

\* Time passes, later on.
Late ==
    /\ now >= MaxTime
    /\ now < MaxLate
    /\ now' = now + 1
    /\ UNCHANGED <<user_cooldowns, last_api_call, min_gap, last_start, last_ok, invs>>
    /\ UNCHANGED notStats

\* Mutant of InCooldown: the window includes its end.
InCooldownInclusive(t, last) == t - last <= RATE_LIMIT_COOLDOWN

\* line 357: current_time - user_cooldowns[ctx.author.id] < RATE_LIMIT_COOLDOWN
InCooldown(t, last) == t - last < RATE_LIMIT_COOLDOWN

\* The handler returns or raises: its locals are gone, what it did stays on
\* record.
Finished(v, reply) ==
    [v EXCEPT !.pc = "done", !.reply = reply, !.current_time = 0,
              !.stage = "none", !.wake = 0, !.stats_ok = FALSE]

\* lines 355-361: the cooldown check, then the command is deferred.
\* Invocation i is the i-th the bot receives, user u the u-th to invoke.
StatsStart(i, u) ==
    /\ invs[i].pc = "idle"
    /\ \A k \in 1..(i - 1) : invs[k].pc # "idle"
    /\ \A w \in 1..(u - 1) : \E k \in Invs : invs[k].user = w
    /\ LET v == [NoInv EXCEPT !.user = u, !.current_time = now] IN
       invs' = [invs EXCEPT ![i] =
           IF InCooldown(now, user_cooldowns[u])
           THEN [Finished(v, "cooldown") EXCEPT
                    !.remaining = RATE_LIMIT_COOLDOWN - (now - user_cooldowns[u])]
           ELSE [v EXCEPT !.pc = "defer"]]
    /\ last_start' = [last_start EXCEPT ![u] = now]
    /\ UNCHANGED <<now, user_cooldowns, last_api_call, min_gap, last_ok>>
    /\ UNCHANGED notStats

\* lines 126-129: last_api_call is set and the request goes out.
Send(i, v) ==
    /\ last_api_call' = now
    /\ min_gap' = IF now - last_api_call < min_gap THEN now - last_api_call ELSE min_gap
    /\ invs' = [invs EXCEPT ![i] = [v EXCEPT !.pc = "flight", !.wake = 0,
                                              !.calls = @ + 1]]

\* lines 120-129: _rate_limited_request: the caller sleeps for what is missing
\* of rate_limit_delay since last_api_call, or sends at once.
_rate_limited_request(i, v) ==
    LET time_since_last_call == now - last_api_call IN
    IF time_since_last_call < rate_limit_delay
    THEN /\ invs' = [invs EXCEPT ![i] =
                       [v EXCEPT !.pc = "sleep",
                                 !.wake = now + (rate_limit_delay - time_since_last_call)]]
         /\ UNCHANGED <<last_api_call, min_gap>>
    ELSE Send(i, v)

\* lines 361-363: ctx.defer() is over and get_player_data is called.
Deferred(i) ==
    /\ invs[i].pc = "defer"
    /\ _rate_limited_request(i, [invs[i] EXCEPT !.stage = "player"])
    /\ UNCHANGED <<now, user_cooldowns, last_start, last_ok>>
    /\ UNCHANGED notStats

\* lines 124-129: asyncio.sleep is over, at the wake time or later.
RlWake(i) ==
    /\ invs[i].pc = "sleep"
    /\ now >= invs[i].wake
    /\ Send(i, invs[i])
    /\ UNCHANGED <<now, user_cooldowns, last_start, last_ok>>
    /\ UNCHANGED notStats

\* What can happen to the HTTP request of lines 129-135: a response with a
\* JSON body ("success"), a 429 response ("throttled"), another 4xx/5xx
\* response ("http_error"), no response ("transport"), a body that is not JSON
\* under a JSON content type ("malformed") or under another content type
\* ("content_type"), a timeout of the session ("timeout").
CallOutcomes == {"success", "throttled", "http_error", "transport", "malformed",
                 "content_type", "timeout"}

\* The exception the body of the try raises (lines 129-135): raise_for_status
\* raises ClientResponseError, response.json() raises JSONDecodeError or
\* ContentTypeError, the session raises ClientConnectionError or TimeoutError.
ExceptionOf(o) ==
    CASE o = "http_error" -> "ClientResponseError"
      [] o = "transport" -> "ClientConnectionError"
      [] o = "content_type" -> "ContentTypeError"
      [] o = "malformed" -> "JSONDecodeError"
      [] o = "timeout" -> "TimeoutError"
      [] OTHER -> "none"

\* The subclasses of aiohttp.ClientError among the exceptions.
ClientErrors == {"ClientResponseError", "ClientConnectionError", "ContentTypeError"}

\* Mutant of Handler: the last except clause (except Exception) is missing.
HandlerNarrow(exc) ==
    IF exc \in ClientErrors \cup {"JSONDecodeError"} THEN "absent" ELSE "raised"

\* lines 136-144: the except clauses; each of them returns None.
Handler(exc) ==
    CASE exc \in ClientErrors -> "absent"
      [] exc = "JSONDecodeError" -> "absent"
      [] OTHER -> "absent"

\* lines 128-144: what _rate_limited_request gives its caller: the decoded
\* JSON ("data"), None ("absent"), or an exception ("raised").
request_result(o) ==
    IF o = "throttled" THEN "absent"
    ELSE IF ExceptionOf(o) # "none" THEN Handler(ExceptionOf(o))
    ELSE "data"

\* lines 363-370: the result of a call of the handler: absent (None) or the
\* decoded JSON.
ApiResults == {request_result(o) : o \in CallOutcomes}

\* lines 363-417: the response of the call in flight arrives and the handler
\* runs on to its next call, to its answer, or raises (player_history.get on
\* None, or the loop over the recent matches).
RlReturn(i) ==
    /\ invs[i].pc = "flight"
    /\ \E res \in ApiResults :
         LET v == invs[i] IN
         CASE v.stage = "player" /\ res = "data" ->
                _rate_limited_request(i, [v EXCEPT !.stage = "stats"])
           [] v.stage = "stats" ->
                _rate_limited_request(i, [v EXCEPT !.stage = "history",
                                                   !.stats_ok = (res = "data")])
           [] v.stage = "history" /\ v.stats_ok /\ res = "data" ->
                /\ \E raised \in LoopRaises :
                      invs' = [invs EXCEPT ![i] =
                          IF raised THEN Finished(v, "error")
                          ELSE [v EXCEPT !.pc = "send", !.stage = "none"]]
                /\ UNCHANGED <<last_api_call, min_gap>>
           [] OTHER ->
                /\ invs' = [invs EXCEPT ![i] =
                      IF v.stage = "player" THEN Finished(v, "not_found")
                      ELSE IF ~v.stats_ok THEN Finished(v, "no_stats")
                      ELSE Finished(v, "error")]
                /\ UNCHANGED <<last_api_call, min_gap>>
    /\ UNCHANGED <<now, user_cooldowns, last_start, last_ok>>
    /\ UNCHANGED notStats

\* lines 419-420: the embed is sent and the user's cooldown is set to the time
\* the invocation started; a failing send raises before line 420.
StatsFinish(i) ==
    /\ invs[i].pc = "send"
    /\ \E ok \in BOOLEAN :
         IF ok
         THEN /\ invs' = [invs EXCEPT ![i] = Finished(@, "embed")]
              /\ user_cooldowns' = [user_cooldowns EXCEPT
                                      ![invs[i].user] = invs[i].current_time]
              /\ last_ok' = [last_ok EXCEPT ![invs[i].user] = now]
         ELSE /\ invs' = [invs EXCEPT ![i] = Finished(@, "error")]
              /\ UNCHANGED <<user_cooldowns, last_ok>>
    /\ UNCHANGED <<now, last_api_call, min_gap, last_start>>
    /\ UNCHANGED notStats

\* -------------------------------------------- a caller of the API client

NoCall == [pc |-> "idle", session |-> "none", wake |-> 0, outcome |-> "none",
           result |-> "none"]

\* lines 126-129: last_api_call is set and the request goes out.
ApiSend(c) ==
    /\ last_api_call' = now
    /\ min_gap' = IF now - last_api_call < min_gap THEN now - last_api_call ELSE min_gap
    /\ api' = [c EXCEPT !.pc = "flight", !.wake = 0]

\* lines 116-129: a call of _rate_limited_request: the session is created when
\* there is none, then the caller sleeps for what is missing of
\* rate_limit_delay or sends at once.
ApiCall ==
    /\ api.pc = "idle"
    /\ LET c == [api EXCEPT !.session = "open", !.outcome = "none", !.result = "none"]
           time_since_last_call == now - last_api_call
       IN  IF time_since_last_call < rate_limit_delay
           THEN /\ api' = [c EXCEPT !.pc = "sleep",
                                    !.wake = now + (rate_limit_delay - time_since_last_call)]
                /\ UNCHANGED <<last_api_call, min_gap>>
           ELSE ApiSend(c)
    /\ UNCHANGED now
    /\ UNCHANGED notApi

\* lines 124-129: asyncio.sleep is over.
ApiWake ==
    /\ api.pc = "sleep"
    /\ now >= api.wake
    /\ ApiSend(api)
    /\ UNCHANGED now
    /\ UNCHANGED notApi

\* lines 129-144: the request ends and the call returns to its caller.
ApiReturn ==
    /\ api.pc = "flight"
    /\ \E o \in CallOutcomes :
         api' = [api EXCEPT !.pc = "idle", !.outcome = o, !.result = request_result(o)]
    /\ UNCHANGED <<now, last_api_call, min_gap>>
    /\ UNCHANGED notApi

ApiNext == Tick \/ ApiCall \/ ApiWake \/ ApiReturn

\* ------------------------------------- scheduling of check_championships

\* A task of the loop: it sleeps to its next iteration (due: the time of the
\* iteration has come) or is inside a run of check_championships, which
\* waits for the bot to be ready ("waiting") or works ("running").
NewTask == [pc |-> "sleeping", due |-> TRUE]

\* Mutant of start: a task is launched whether or not one is running.
startUnguarded(tasks) == [tasks |-> Append(tasks, NewTask), raised |-> FALSE]

\* check_championships.start() (line 284): tasks.Loop.start raises
\* RuntimeError when the task of the loop is launched and not completed,
\* and launches the task otherwise; its first iteration is due at once.
start(tasks) ==
    IF \E k \in 1..Len(tasks) : tasks[k].pc # "completed"
    THEN [tasks |-> tasks, raised |-> TRUE]
    ELSE [tasks |-> Append(tasks, NewTask), raised |-> FALSE]

\* lines 275-287: the gateway session is ready, for the first time or again
\* after a reconnect that could not resume.
on_ready ==
    /\ sched.ready < MaxReady
    /\ sched.conn = "connecting"
    /\ LET r == start(sched.tasks) IN
       sched' = [sched EXCEPT !.ready = @ + 1, !.conn = "ready", !.tasks = r.tasks,
                              !.errors = @ + (IF r.raised THEN 1 ELSE 0)]
    /\ UNCHANGED notSched

\* The gateway session is lost; the bot connects again.
Disconnect ==
    /\ sched.conn = "ready"
    /\ sched' = [sched EXCEPT !.conn = "connecting"]
    /\ UNCHANGED notSched

\* line 289: five minutes have passed since the iteration of task k began.
IntervalElapsed(k) ==
    /\ k \in 1..Len(sched.tasks)
    /\ ~sched.tasks[k].due
    /\ sched' = [sched EXCEPT !.tasks[k].due = TRUE]
    /\ UNCHANGED notSched

\* lines 289-294: task k calls check_championships for its next iteration;
\* the run starts with bot.wait_until_ready().
RunBegins(k) ==
    /\ k \in 1..Len(sched.tasks)
    /\ sched.tasks[k] = [pc |-> "sleeping", due |-> TRUE]
    /\ sched.runs < MaxRuns
    /\ sched' = [sched EXCEPT !.tasks[k] = [pc |-> "waiting", due |-> FALSE],
                              !.runs = @ + 1]
    /\ UNCHANGED notSched

\* line 294: bot.wait_until_ready() returns.
RunGoesOn(k) ==
    /\ k \in 1..Len(sched.tasks)
    /\ sched.tasks[k].pc = "waiting"
    /\ sched.conn = "ready"
    /\ sched' = [sched EXCEPT !.tasks[k].pc = "running"]
    /\ UNCHANGED notSched

\* lines 300-346: check_championships returns (it catches what its body
\* raises) and task k sleeps to its next iteration.
RunEnds(k) ==
    /\ k \in 1..Len(sched.tasks)
    /\ sched.tasks[k].pc = "running"
    /\ sched' = [sched EXCEPT !.tasks[k].pc = "sleeping"]
    /\ UNCHANGED notSched

SchedInit ==
    sched = [tasks |-> <<>>, conn |-> "connecting", ready |-> 0, errors |-> 0,
             runs |-> 0]

SchedNext ==
    \/ on_ready
    \/ Disconnect
    \/ \E k \in 1..MaxReady : IntervalElapsed(k)
    \/ \E k \in 1..MaxReady : RunBegins(k)
    \/ \E k \in 1..MaxReady : RunGoesOn(k)
    \/ \E k \in 1..MaxReady : RunEnds(k)

StatsInit ==
    /\ now = StartTime
    /\ user_cooldowns = [u \in Users |-> 0]
    /\ last_api_call = 0
    /\ min_gap = rate_limit_delay
    /\ last_start = [u \in Users |-> 0]
    /\ last_ok = [u \in Users |-> 0]
    /\ invs = [i \in Invs |-> NoInv]
    /\ api = NoCall

StatsNext ==
    \/ Tick
    \/ \E i \in Invs, u \in Users : StatsStart(i, u)
    \/ \E i \in Invs : Deferred(i)
    \/ \E i \in Invs : RlWake(i)
    \/ \E i \in Invs : RlReturn(i)
    \/ \E i \in Invs : StatsFinish(i)

\* ------------------------------------ the exceptions of one cycle

\* An item of the listing, as the loop sees it: whether its id is in the store
\* (line 306) and its status.
ItemKinds == [tracked : BOOLEAN, status : Statuses]

\* championships_data['items']
Listings == UNION {[1..n -> ItemKinds] : n \in 0..MaxItems}

NoRaise == [at |-> "none", exc |-> "none"]

\* The calls of lines 312-320 that can raise for a stored tournament whose
\* channel resolved: fetch_message (312); for a finished or cancelled one also
\* create_finished_embed (316), message.edit (317) and
\* save_announced_tournaments (320). get_championship_standings returns None
\* instead of raising.
RaisesTracked(it) ==
    [at : {"fetch"}, exc : {"NotFound", "Forbidden", "Exception"}]
    \cup (IF IsFinished(it.status)
          THEN [at : {"render_final"}, exc : {"Exception"}]
               \cup [at : {"edit"}, exc : {"NotFound", "Forbidden", "Exception"}]
               \cup [at : {"save_final"}, exc : {"Exception"}]
          ELSE {})

\* The calls of lines 335-339 that can raise for a tournament that is not in
\* the store and is listed as upcoming or in progress: create_championship_embed
\* (335), send (337), save_announced_tournaments (339).
RaisesNew(it) ==
    IF IsAnnounceable(it.status)
    THEN [at : {"render_new"}, exc : {"Exception"}]
         \cup [at : {"send"}, exc : {"Forbidden", "Exception"}]
         \cup [at : {"save_new"}, exc : {"Exception"}]
    ELSE {}

\* The try statements of the loop body: lines 311-329 hold the fetch, the
\* terminal embed, the edit and the save; lines 336-343 hold the send and the
\* save. create_championship_embed (line 335) is called before the try.
InTry(at) == at \in {"fetch", "render_final", "edit", "save_final", "send", "save_new"}

\* The except clause that takes a raise inside a try ("none": no clause, the
\* exception leaves the loop body).
ClauseOf(r) ==
    IF ~InTry(r.at) THEN "none"
    ELSE IF r.exc = "NotFound" THEN "NotFound"
    ELSE IF r.exc = "Forbidden" THEN "Forbidden"
    ELSE "Exception"

\* How the handling of an item can go: what raised first, the clause that took
\* it, and whether the save inside the NotFound clause (line 325) raised in
\* turn.
RunsOf(it) ==
    UNION {{[first |-> r, clause |-> ClauseOf(r), second |-> sec] :
               sec \in IF ClauseOf(r) = "NotFound" THEN BOOLEAN ELSE {FALSE}} :
           r \in {NoRaise} \cup (IF it.tracked THEN RaisesTracked(it)
                                               ELSE RaisesNew(it))}

\* The exception leaves the for loop and is taken by line 345: it was raised
\* outside the try statements of the body, or inside an except clause.
Escapes(run) ==
    \/ run.first.at # "none" /\ run.clause = "none"
    \/ run.clause = "NotFound" /\ run.second

NoCycle == [pc |-> "idle", listing |-> <<>>, runs |-> <<>>]

\* lines 297-302: a listing arrived and the for loop starts.
CycleStart ==
    /\ cycle.pc # "loop"
    /\ \E L \in Listings : cycle' = [pc |-> "loop", listing |-> L, runs |-> <<>>]
    /\ UNCHANGED notCycle

\* lines 302-343: the body of the loop for the next item. An exception that
\* leaves the body ends the cycle at line 345.
CycleItem ==
    /\ cycle.pc = "loop"
    /\ Len(cycle.runs) < Len(cycle.listing)
    /\ \E run \in RunsOf(cycle.listing[Len(cycle.runs) + 1]) :
         cycle' = [cycle EXCEPT !.runs = Append(@, run),
                                !.pc = IF Escapes(run) THEN "done" ELSE "loop"]
    /\ UNCHANGED notCycle

\* The for loop is exhausted.
CycleEnd ==
    /\ cycle.pc = "loop"
    /\ Len(cycle.runs) = Len(cycle.listing)
    /\ cycle' = [cycle EXCEPT !.pc = "done"]
    /\ UNCHANGED notCycle

CycleInit == cycle = NoCycle

CycleNext == CycleStart \/ CycleItem \/ CycleEnd

vars == <<syncVars, oauthVars, statsVars, api, sched, recent, cycle>>

Init == SyncInit /\ OAuthInit /\ StatsInit /\ SchedInit /\ RecentInit /\ CycleInit

Next == SyncNext

Spec == Init /\ [][Next]_vars

\* The sync loop over several runs of the process.
NextRestart == Next \/ Restart

SpecRestart == Init /\ [][NextRestart]_vars

\* The OAuth linking flow: /login on the event loop, /oauth-callback requests
\* on the threads of the web server.
SpecOAuth == Init /\ [][OAuthNext]_vars

\* /stats handlers running on the event loop, all through the one FaceitAPI.
SpecStats == Init /\ [][StatsNext]_vars

\* The sync loop under the scheduling of tasks.loop: the next cycle is always
\* started, a started cycle goes through its items and ends.
SpecFair ==
    /\ Init /\ [][Next]_vars
    /\ WF_vars(StartCycle)
    /\ WF_vars(\E cid \in Ids : ProcessItem(cid))
    /\ WF_vars(FinishCycle)

\* The walk of the for loop over a listing, cycle after cycle.
SpecCycle == Init /\ [][CycleNext]_vars

\* The same handlers over a longer stretch of time.
SpecStatsLong == Init /\ [][StatsNext \/ Late]_vars

\* One caller of the API client making request after request.
SpecApi == Init /\ [][ApiNext]_vars

\* The glyphs of the recent matches, for every short match history.
SpecRecent == Init /\ [][RecentNext]_vars

\* The loop of check_championships as on_ready starts it.
SpecSched == Init /\ [][SchedNext]_vars

\* ------------------------------------------------------------------ claims

\* The messages a step publishes.
Published == {m \in MsgIds : channel[m].kind = "none" /\ channel'[m].kind # "none"}

\* The step handles item cid of the listing.
Handles(cid) == ev'.op = "item" /\ ev'.id = cid

\* No tournament has two live announcements in the channel.
AtMostOneLive ==
    \A m1, m2 \in MsgIds :
        (/\ channel[m1].kind = "live" /\ channel[m2].kind = "live"
         /\ channel[m1].tid = channel[m2].tid) => m1 = m2

\* C1 as stated: every listed tournament that is upcoming or in progress and
\* not in the store gets exactly one announcement message and one store entry
\* (and no second live announcement later).
C1_Original ==
    /\ (ev.op = "item" /\ ~ev.stored /\ ev.status \in Active) =>
           /\ ev.send = "ok"
           /\ ev.id \in DOMAIN announced_tournaments
           /\ announced_tournaments[ev.id] = ev.newMsg
    /\ AtMostOneLive

C1_Step(cid) ==
    /\ (Handles(cid) /\ cid \notin DOMAIN announced_tournaments
                     /\ ev'.status \in Active) =>
          IF ev'.send = "ok"
          THEN /\ Published = {ev'.newMsg}
               /\ channel' = [channel EXCEPT ![ev'.newMsg] =
                                 [tid |-> cid, kind |-> "live"]]
               /\ announced_tournaments' =
                      [x \in DOMAIN announced_tournaments \cup {cid} |->
                          IF x = cid THEN ev'.newMsg ELSE announced_tournaments[x]]
               /\ Cardinality(DOMAIN announced_tournaments') =
                      Cardinality(DOMAIN announced_tournaments) + 1
          ELSE Published = {} /\ announced_tournaments' = announced_tournaments
    \* a message is published for cid only by the step that handles cid, only
    \* while cid is not in the store and is listed as active
    /\ (\E m \in Published : channel'[m].tid = cid) =>
          /\ Handles(cid)
          /\ cid \notin DOMAIN announced_tournaments
          /\ ev'.status \in Active
    \* the entry stays while the tournament is active and its message exists
    /\ (/\ cid \in DOMAIN announced_tournaments
        /\ Exists(announced_tournaments[cid])
        /\ (Handles(cid) => ev'.status \in Active)) =>
          /\ cid \in DOMAIN announced_tournaments'
          /\ announced_tournaments'[cid] = announced_tournaments[cid]
          /\ ~\E m \in Published : channel'[m].tid = cid

\* C1 (amended): in check_championships, a listed tournament that is upcoming
\* or in progress and not in the store gets exactly one announcement message
\* and exactly one store entry id -> that message's id when the publish
\* succeeds, and no message and no entry when it does not (channel not
\* resolved, embed or send raised); while the tournament is in the store, stays
\* active and its message exists, no step publishes a message for it, so no
\* tournament ever has two live announcements.
C1_AnnouncedOnce == [][(\A cid \in Ids : C1_Step(cid)) /\ AtMostOneLive']_vars

\* C1 witness: a later cycle finds the announced tournament still active with
\* its message in place.
C1_Witness ==
    /\ ev.op = "item" /\ ev.stored /\ ev.existed /\ ev.status \in Active
    /\ ev.fetch = "ok" /\ channel[ev.mid] = [tid |-> ev.id, kind |-> "live"]

\* C2 as stated: a stored tournament listed as finished or cancelled whose
\* message can be fetched has that message edited in place and leaves the
\* store.
C2_Original ==
    (ev.op = "item" /\ ev.stored /\ ev.status \in Terminal /\ ev.fetch = "ok") =>
        /\ ev.edit = "ok"
        /\ ev.send = "none"
        /\ ev.id \notin DOMAIN announced_tournaments

C2_Step(cid) ==
    /\ (Handles(cid) /\ cid \in DOMAIN announced_tournaments
                     /\ ev'.status \in Terminal /\ ev'.edit = "ok") =>
          /\ ev'.fetch = "ok" /\ ev'.send = "none" /\ Published = {}
          /\ channel' = [channel EXCEPT ![announced_tournaments[cid]].kind = "final"]
          /\ announced_tournaments' =
                 [x \in DOMAIN announced_tournaments \ {cid} |->
                     announced_tournaments[x]]
    \* the further cycle: not in the store and listed as over, nothing is done
    /\ (Handles(cid) /\ cid \notin DOMAIN announced_tournaments
                     /\ ev'.status \in Terminal) =>
          /\ ev'.fetch = "none" /\ ev'.edit = "none" /\ ev'.send = "none"
          /\ channel' = channel
          /\ announced_tournaments' = announced_tournaments
    \* and the id comes back to the store only as a new announcement of an
    \* active tournament
    /\ (cid \notin DOMAIN announced_tournaments
        /\ cid \in DOMAIN announced_tournaments') =>
          Handles(cid) /\ ev'.status \in Active /\ ev'.send = "ok"
    \* a message is edited only by the step that handles its stored tournament
    /\ (\E m \in MsgIds : channel[m].kind = "live" /\ channel'[m].kind = "final"
                          /\ channel[m].tid = cid) =>
          Handles(cid) /\ cid \in DOMAIN announced_tournaments /\ ev'.edit = "ok"

\* C2 (amended): when a tournament in the store is listed as finished or
\* cancelled, its message is fetched, the terminal embed renders and the edit
\* succeeds, the cycle edits that message in place (no new message) and removes
\* the id from the store; a further cycle with the same listing does no fetch,
\* no edit and no publish for that id.
C2_FinalizedOnce == [][\A cid \in Ids : C2_Step(cid)]_vars

\* C2 witness: the further cycle handles the finalized tournament.
C2_Witness ==
    /\ ev.op = "item" /\ ~ev.stored /\ ev.status \in Terminal
    /\ \E m \in MsgIds : channel[m] = [tid |-> ev.id, kind |-> "final"]

C3_Step(cid) ==
    /\ (Handles(cid) /\ (ev'.fetch = "notfound" \/ ev'.edit = "notfound")) =>
          /\ cid \in DOMAIN announced_tournaments
          /\ \/ announced_tournaments[cid] \notin MsgIds
             \/ channel'[announced_tournaments[cid]].kind \notin {"live", "final"}
          /\ cid \notin DOMAIN announced_tournaments'
          /\ ev'.send = "none" /\ Published = {}
    \* announced again as new: a new message and a new entry
    /\ (Handles(cid) /\ cid \notin DOMAIN announced_tournaments
                     /\ ev'.status \in Active /\ ev'.send = "ok") =>
          /\ channel[ev'.newMsg].kind = "none"
          /\ channel'[ev'.newMsg] = [tid |-> cid, kind |-> "live"]
          /\ cid \in DOMAIN announced_tournaments'
          /\ announced_tournaments'[cid] = ev'.newMsg
    \* a deleted message stays deleted
    /\ \A m \in MsgIds : channel[m].kind = "deleted" => channel'[m].kind = "deleted"

C10_Step(cid) ==
    /\ (Handles(cid) /\ ev'.status \in Terminal
          /\ (ev'.fetch = "forbidden" \/ ev'.edit = "forbidden")) =>
          /\ cid \in DOMAIN announced_tournaments
          /\ announced_tournaments' = announced_tournaments
          /\ file' = file /\ ev'.save = "none"
          /\ channel' = channel
          /\ ~ev'.aborted
    \* the retry
    /\ (Handles(cid) /\ cid \in DOMAIN announced_tournaments /\ ev'.chan) =>
          /\ ev'.fetch # "none"
          /\ (ev'.fetch = "ok" /\ ev'.status \in Terminal) =>
                /\ ev'.standings # "none"
                /\ ev'.render = "raised" \/ ev'.edit # "none"

C10_ForbiddenKeepsEntry == [][\A cid \in Ids : C10_Step(cid)]_vars

\* C10 witness: the edit of a finished tournament's message was refused.
C10_Witness ==
    /\ ev.op = "item" /\ ev.stored /\ ev.status \in Terminal
    /\ ev.edit = "forbidden"
    /\ ev.id \in DOMAIN announced_tournaments
    /\ announced_tournaments[ev.id] = ev.mid

CleanItem ==
    /\ ev.op = "item"
    /\ (ev.stored \/ ev.status \in Active) => ev.chan
    /\ ev.fetch \notin {"forbidden", "error"}
    /\ ev.edit \notin {"forbidden", "error"}
    /\ ev.send \notin {"forbidden", "error"}
    /\ ev.render # "raised"

\* The message the step looked up (the one the store named) or published.
Handled == IF ev.stored THEN ev.mid ELSE ev.newMsg

UpdatesOf(r) == {x \in updates : x.req = r}

\* C5 as stated: of the /oauth-callback requests that present the same issued
\* token (each with a code), at most one gets past the state check to the
\* token exchange, and every other one is answered with an error.
C5_Original ==
    \A r1, r2 \in Reqs :
        /\ (/\ reqs[r1].code /\ reqs[r2].code
            /\ reqs[r1].state # 0 /\ reqs[r1].state = reqs[r2].state
            /\ reqs[r1].passed /\ reqs[r2].passed) => r1 = r2
        /\ (reqs[r1].pc = "done" /\ ~reqs[r1].passed) => reqs[r1].resp \in {400, 500}

\* C6 as stated: a request whose state matches no stored entry, or that has no
\* code, is answered 400, removes nothing from verification_states, makes no
\* token exchange and no profile fetch and hands over no nickname update.
C6_Original ==
    \A r \in Reqs :
        (reqs[r].pc = "done" /\ (~reqs[r].known \/ ~reqs[r].code)) =>
            /\ reqs[r].resp = 400
            /\ ~reqs[r].passed
            /\ reqs[r].xchg = "none" /\ reqs[r].prof = "none"
            /\ UpdatesOf(r) = {}

C7_Step(r) ==
    \* the request that found its token and has a code removes the entry, and
    \* only then exchanges the code
    /\ (/\ reqs[r].pc = "check" /\ reqs'[r].pc # "check"
        /\ reqs[r].discord_id # 0 /\ reqs[r].code) =>
          /\ reqs'[r].pc = "exchange" /\ reqs'[r].passed
          /\ reqs'[r].xchg = "none"
          /\ reqs[r].discord_id \notin Keys(verification_states')
    /\ (reqs'[r].pc \in {"exchange", "profile"} \/ reqs'[r].xchg # "none") =>
          reqs'[r].passed
    \* the handler does not put the entry back
    /\ (reqs[r].passed /\ reqs'[r] # reqs[r]) =>
          verification_states' = verification_states
    \* a failed exchange or profile fetch: 500 and no update
    /\ (reqs'[r].xchg = "failed" \/ reqs'[r].prof \in {"failed", "raised"}) =>
          /\ reqs'[r].pc = "done" /\ reqs'[r].resp = 500
          /\ {x \in updates' : x.req = r} = {}
    \* 200 only with both calls done and the update handed over
    /\ reqs'[r].resp = 200 =>
          /\ reqs'[r].xchg = "ok" /\ reqs'[r].prof = "ok"
          /\ {x \in updates' : x.req = r} = {[req |-> r, user |-> reqs'[r].discord_id]}
    /\ {x \in updates' : x.req = r} # {} => reqs'[r].resp = 200

\* C7: a request that found its token and carries a code removes the user's
\* entry before the exchange; when the token exchange or the profile fetch
\* fails the answer is 500, the handler does not restore the entry and hands
\* over no nickname update; 200 is answered only when both calls succeeded and
\* the update was handed to the event loop.
C7_ConsumedBeforeExchange == [][\A r \in Reqs : C7_Step(r)]_vars

\* C7 witness: the profile fetch failed after the entry was consumed.
C7_Witness ==
    \E r \in Reqs :
        /\ reqs[r].pc = "done" /\ reqs[r].passed
        /\ reqs[r].xchg = "ok" /\ reqs[r].prof = "failed" /\ reqs[r].resp = 500
        /\ reqs[r].discord_id \notin Keys(verification_states)
        /\ UpdatesOf(r) = {}


\* Invocation i starts in this step.
Starts(i) == invs[i].pc = "idle" /\ invs'[i].pc # "idle"

C9_Original == min_gap >= rate_limit_delay

\* C11: when the send of the announcement of an active tournament that is not
\* in the store fails with Forbidden or another error, the store, the file and
\* the channel are as before and the cycle goes on; the id not being stored,
\* every later cycle that handles the tournament while it is listed as active
\* takes the same path: with the channel resolved it builds the embed and, the
\* embed built, sends again.
C11_Step(cid) ==
    /\ (Handles(cid) /\ cid \notin DOMAIN announced_tournaments
          /\ ev'.status \in Active /\ ev'.send \in {"forbidden", "error"}) =>
          /\ announced_tournaments' = announced_tournaments
          /\ cid \notin DOMAIN announced_tournaments'
          /\ file' = file /\ ev'.save = "none"
          /\ channel' = channel
          /\ ~ev'.aborted
    \* the retry
    /\ (Handles(cid) /\ cid \notin DOMAIN announced_tournaments
          /\ ev'.status \in Active /\ ev'.chan) =>
          /\ ev'.render # "none"
          /\ ev'.render = "ok" => ev'.send # "none"

C11_PublishFailureRetried == [][\A cid \in Ids : C11_Step(cid)]_vars

\* C11 witness: the send for an active tournament was refused and nothing was
\* stored.
C11_Witness ==
    /\ ev.op = "item" /\ ~ev.stored /\ ev.status \in Active
    /\ ev.send = "forbidden"
    /\ ev.id \notin DOMAIN announced_tournaments

\* C12 as stated, refuted: whenever the process stops and starts again, the
\* store loaded from the file is the store the process had when it stopped;
\* no tournament has a second live announcement and no tournament whose
\* message was finalized is in the loaded store.
C12_Original ==
    [][ev'.op = "restart" =>
          /\ announced_tournaments' = announced_tournaments
          /\ AtMostOneLive'
          /\ \A m \in MsgIds :
                channel'[m].kind = "final" =>
                    channel'[m].tid \notin DOMAIN announced_tournaments']_vars

\* C13 as stated, refuted: /login never writes verification_states while a
\* callback is scanning it, nor between a callback's scan that found the entry
\* and its removal of the entry.
C13_Original ==
    [][tokens' # tokens =>
          \A r \in Reqs :
              /\ reqs[r].pc # "scan"
              /\ ~(reqs[r].pc = "check" /\ reqs[r].discord_id # 0 /\ reqs[r].code)]_vars

\* C14: _rate_limited_request never raises to its caller: it returns None for
\* a 429 response, for another error response, for a transport failure, for a
\* payload that cannot be decoded and for a timeout, and it returns the decoded
\* JSON for a successful response and for no other.
C14_NeverRaises ==
    api.outcome # "none" =>
        /\ api.result \in {"absent", "data"}
        /\ api.result = "data" <=> api.outcome = "success"
        /\ api.outcome \in {"throttled", "http_error", "transport", "malformed",
                            "content_type", "timeout"} => api.result = "absent"

\* C14 witness: a request ran into a timeout, which no clause but the last
\* catches, and the caller got None.
C14_Witness == api.pc = "idle" /\ api.outcome = "timeout" /\ api.result = "absent"

\* The runs of check_championships in progress.
Running == {k \in 1..Len(sched.tasks) : sched.tasks[k].pc \in {"waiting", "running"}}

\* C15: at most one run of check_championships is in progress at any time:
\* there is one task of the loop however often on_ready fires, and the task
\* begins an iteration only when the run before it has returned.
C15_OneRunAtATime ==
    /\ Cardinality(Running) <= 1
    /\ Len(sched.tasks) <= 1

\* C15 witness: on_ready has fired again while a run was in progress that
\* lasts longer than the interval of the loop.
C15_Witness ==
    /\ sched.ready >= 2 /\ sched.errors >= 1
    /\ Cardinality(Running) = 1
    /\ \E k \in Running : sched.tasks[k].due

\* C16 as stated, refuted: when a stored tournament is listed as finished or
\* cancelled, its message is fetched, the championship has the fields the
\* embed reads and the edit does not fail, then whatever the standings call
\* returned the terminal embed is rendered, the message is edited and the id
\* leaves the store.
C16_Original ==
    (/\ ev.op = "item" /\ ev.stored /\ ev.status \in Terminal
     /\ ev.fetch = "ok" /\ ev.fields = "ok"
     /\ ev.edit \notin {"notfound", "forbidden", "error"}) =>
        /\ ev.render \in {"placeholder", "leaderboard"}
        /\ ev.standings \in {"absent", "empty"} => ev.render = "placeholder"
        /\ ev.edit = "ok"
        /\ channel[ev.mid].kind = "final"
        /\ ev.id \notin DOMAIN announced_tournaments

\* C17 as stated, refuted: whenever /stats sends the stats embed of a user, at
\* least RATE_LIMIT_COOLDOWN has passed since it last sent one for that user.
C17_Original ==
    [][\A i \in Invs :
          (/\ invs[i].pc = "send"
           /\ invs'[i].reply = "embed"
           /\ last_ok[invs[i].user] > 0)
          => now - last_ok[invs[i].user] >= RATE_LIMIT_COOLDOWN]_vars

\* The listing of the cycle a step of check_championships belongs to.
ListingOf == IF ev'.op = "listing" THEN DOMAIN items' ELSE DOMAIN items

C19_NoListingNoChange ==
    [][ev'.listing \in {"absent", "no_items"} =>
          /\ ev'.op = "no_listing"
          /\ channel' = channel
          /\ announced_tournaments' = announced_tournaments
          /\ file' = file
          /\ ev'.fetch = "none" /\ ev'.edit = "none" /\ ev'.send = "none"
          /\ ev'.standings = "none" /\ ev'.save = "none"
          /\ pc' = "idle" /\ todo' = {}]_vars

\* C19 witness: a cycle got a result without 'items' while a tournament was
\* stored, and the loop waits for its next cycle.
C19_Witness ==
    /\ ev.op = "no_listing" /\ ev.listing = "no_items"
    /\ DOMAIN announced_tournaments # {}
    /\ pc = "idle"

\* The glyph C20 gives a match: none without faction data or without a winner
\* id, otherwise by the winner id against the requesting player's own faction.
ClaimedIcon(mt) ==
    IF mt.teams # "ok" \/ mt.winner = 0 THEN "none"
    ELSE IF mt.winner = mt.mine THEN "green" ELSE "red"

\* The glyphs C20 gives a history.
ClaimedIcons(h) ==
    LET keep == SelectSeq(h, LAMBDA mt : ClaimedIcon(mt) # "none")
    IN  [k \in 1..Len(keep) |-> ClaimedIcon(keep[k])]

\* C20 as stated, refuted: whatever the recent matches are, the handler
\* raises no error and sends its response, a match without faction data or
\* without a winner id gives no glyph, and the glyph of every other match
\* compares the winner id with the requesting player's own faction.
C20_Original ==
    recent.history # <<>> =>
        /\ ~recent.raised
        /\ recent.sent
        /\ recent.icons = ClaimedIcons(recent.history)


\* ------------------------------------------------------------------ C21

\* The author whose entry holds the token st (0: nobody's).
HolderOf(d, st) ==
    IF \E i \in 1..Len(d) : d[i].key # Hole /\ d[i].state = st
    THEN d[CHOOSE i \in 1..Len(d) : d[i].key # Hole /\ d[i].state = st].key
    ELSE 0

\* A callback that passes the check took the author whose stored token is the
\* presented state, and a callback that arrives with a token no entry holds
\* (a value never issued, a token replaced by a later /login or a consumed
\* one) never passes; an update names the author its request took.
C21_Step(r) ==
    /\ (reqs[r].pc = "idle" /\ reqs'[r].pc = "scan") =>
          (reqs'[r].known <=> HolderOf(verification_states, reqs'[r].state) # 0)
    /\ (reqs[r].pc = "check" /\ reqs'[r].pc = "exchange") =>
          /\ reqs[r].known
          /\ reqs[r].state \in 1..Len(tokens)
          /\ reqs[r].discord_id = tokens[reqs[r].state]
    /\ \A up \in updates' \ updates :
          up.req = r =>
            /\ reqs[r].passed
            /\ reqs[r].state \in 1..Len(tokens)
            /\ up.user = tokens[reqs[r].state]

\* C21: every nickname update handed over by /oauth-callback names the user
\* to whom /login issued the presented token: for every interleaving of logins
\* of several users and of callbacks, no callback causes an update for another
\* user than the one whose stored token equals the presented state, and a
\* token replaced by a later /login of the same user no longer matches.
C21_UpdateForTokenOwner == [][\A r \in Reqs : C21_Step(r)]_vars

\* C21 witness: two users were issued tokens and the callback that presented
\* the token of the second one caused an update for the second one.
C21_Witness ==
    /\ \E up \in updates :
          /\ up.user = 2
          /\ tokens[reqs[up.req].state] = 2
          /\ \E t \in 1..Len(tokens) : tokens[t] = 1

\* The other case of C21: a callback that presented a token its user had
\* replaced by a later /login was answered 400.
C21_ReplacedRejected ==
    \E r \in Reqs :
        /\ reqs[r].resp = 400 /\ reqs[r].code
        /\ reqs[r].state \in 1..Len(tokens)
        /\ \E t \in (reqs[r].state + 1)..Len(tokens) : tokens[t] = tokens[reqs[r].state]


\* ------------------------------------------------------------------ C22

\* The tournament is in the store.
Announced(cid) == cid \in DOMAIN announced_tournaments

\* The id is out of the store and the tournament's message shows the terminal
\* embed.
Finalized(cid) ==
    /\ cid \notin DOMAIN announced_tournaments
    /\ \E m \in MsgIds : channel[m] = [tid |-> cid, kind |-> "final"]

\* What C22 assumes of the surroundings: the provider shows the tournament as
\* finished or cancelled, every listing is delivered and holds it, its message
\* exists, and the channel, the lookup and the edit do not fail.
Favourable(cid) ==
    /\ status[cid] \in Terminal
    /\ ev.op # "no_listing"
    /\ pc = "loop" => (cid \in DOMAIN items /\ items[cid] \in Terminal)
    /\ Announced(cid) => Exists(announced_tournaments[cid])
    /\ (ev.op = "item" /\ ev.id = cid) =>
          /\ ev.chan
          /\ ev.fetch \in {"ok", "none"}
          /\ ev.edit \in {"ok", "none"}

\* The terminal embed of the tournament renders.
Renders(cid) == (ev.op = "item" /\ ev.id = cid) => ev.render # "raised"

\* C22 as the spec states it: under fair scheduling of the cycles, a
\* tournament that is in the store, whose message exists and stays editable
\* and that every listing from then on shows as finished or cancelled, is
\* eventually out of the store with its message edited to the terminal embed.
C22_Original ==
    \A cid \in Ids :
        [](Announced(cid) /\ []Favourable(cid) => <>Finalized(cid))

\* The same with the rendering of the terminal embed among the assumptions:
\* what keeps the tournament in the store is create_finished_embed alone.
C22_FinalizedIfRendered ==
    \A cid \in Ids :
        [](Announced(cid) /\ []Favourable(cid) /\ []Renders(cid) => <>Finalized(cid))


\* ------------------------------------------------------------------ C23

\* C23 as the spec states it: when a cycle is over, the body of the loop ran
\* for every tournament of its listing, whatever failed on the way.
C23_Original ==
    cycle.pc = "done" => Len(cycle.runs) = Len(cycle.listing)

\* What holds instead: the rest of the listing is skipped exactly when
\* create_championship_embed raised for a new tournament or the save in the
\* NotFound clause raised; a failing fetch, terminal embed, edit or send, and
\* a failing save after an edit or a send, leave the rest of the cycle alone.
C23_OnlyEscapesSkip ==
    cycle.pc = "done" =>
        \/ Len(cycle.runs) = Len(cycle.listing)
        \/ LET last == cycle.runs[Len(cycle.runs)] IN
              \/ last.first.at = "render_new"
              \/ last.first.exc = "NotFound" /\ last.second

====
